---- MODULE Spec2Model ----
(***************************************************************************)
(* The dubbing backend: the job store (pipeline.py: jobs, update_job), the *)
(* orchestrator (pipeline.py: run_pipeline and its stages), the HTTP       *)
(* handlers (main.py: start_process, job_status_sse, cleanup) and the      *)
(* working directories (utils.py), run by one asyncio event loop.          *)
(*                                                                         *)
(* A task holds the loop from the await it resumes at to the next await it *)
(* reaches, so each action is one such section: every update_job call of   *)
(* the section happens in it, in order, and no other task sees the job     *)
(* store between two of them.                                              *)
(***************************************************************************)
EXTENDS Integers, Sequences, FiniteSets, TLC

\* ------------------------------------------------------------------ bounds
\* The job ids there are, the jobs submitted under Spec, the subscriptions opened.
NumJobs == 2
JobIds == 1..NumJobs
MaxJobs == 1
MaxSubs == 1
SubIds == 1..MaxSubs
\* The segments of a transcript.
MaxSegs == 2
\* The segments synthesize_tts assembles a track for.
MaxClips == 2

\* ------------------------------------------------------------- job records
\* Python's None, and a value that is not None.
None == <<>>
Some(v) == <<v>>

\* dict.get(key, default)
Get(d, k, default) == IF k \in DOMAIN d THEN d[k] ELSE default

\* dict.update(kwargs): the named keys are set, the others are kept.
DictUpdate(d, kw) ==
  [k \in (DOMAIN d) \cup (DOMAIN kw) |-> IF k \in DOMAIN kw THEN kw[k] ELSE d[k]]

\* The empty dict.
EmptyDict == [k \in {} |-> None]

\* update_job that stores kwargs as the record: jobs[job_id] = kwargs.
UpdateJobReplacing(js, j, kw) ==
  [i \in (DOMAIN js) \cup {j} |-> IF i = j THEN kw ELSE js[i]]

\* update_job(job_id, **kwargs) on the job store js: the record is created
\* empty when absent, then the named fields are merged into it.
update_job(js, j, kw) ==
  LET js1 == IF j \in DOMAIN js
             THEN js
             ELSE [i \in (DOMAIN js) \cup {j} |-> IF i = j THEN EmptyDict ELSE js[i]]
  IN [i \in DOMAIN js1 |-> IF i = j THEN DictUpdate(js1[i], kw) ELSE js1[i]]

\* jobs.pop(job_id, None)
PopJob(js, j) == [i \in (DOMAIN js) \ {j} |-> js[i]]

\* The record start_process creates.
QueuedRecord ==
  [status |-> "queued", progress |-> 0, step |-> "queued",
   message |-> "Job queued, saving uploaded file...",
   error |-> None, output_file |-> None]

\* ------------------------------------------------------------------ state
VARIABLES
  jobs,     \* pipeline.jobs: job id -> dict of fields
  dirs,     \* the job ids whose working directory JOBS_DIR/<id> exists
  pc,       \* per job id: where start_process / run_pipeline stands
  exc,      \* per job id: the exception in flight (Some(str(e))) or None
  log,      \* per job id: the kwargs of every update_job call of its run, in order
  extOK,    \* per job id: every external collaborator called so far succeeded
  cleaned,  \* the job ids cleanup was called for
  tin,      \* per job id: what Whisper and the translator did for translate_segments
  segs,     \* per job id: what translate_segments returned, synthesize_tts's `segments`
  ttsi,     \* per job id: the segment whose clip synthesize_tts awaits (0: none)
  clips,    \* per job id: synthesize_tts's tts_files
  track,    \* per job id: the clips overlaid on the exported full_track, or None
  outfile,  \* per job id: dubbed_output.mp4 on disk: "none", "partial" or "whole"
  sse,      \* per subscription: the job it follows and event_generator's locals
  scr,      \* _download_scraper.py run as a process: main's and try_ytdlp's locals
  asm       \* synthesize_tts's assembly of the track: its inputs and locals

vars ==
  <<jobs, dirs, pc, exc, log, extOK, cleaned, tin, segs, ttsi, clips, track, outfile, sse,
    scr, asm>>

\* What the stages after separate_audio keep between awaits.
tailVars == <<tin, segs, ttsi, clips, track, outfile>>

\* ----------------------------------------------------------------- strings
\* Python's `sub in s` on strings.
Contains(sub, s) ==
  \E i \in 1..(Len(s) - Len(sub) + 1) : SubSeq(s, i, i + Len(sub) - 1) = sub

\* str(n) of a natural number.
Digit(d) == SubSeq("0123456789", d + 1, d + 1)
RECURSIVE ToStr(_)
ToStr(n) == IF n < 10 THEN Digit(n) ELSE ToStr(n \div 10) \o Digit(n % 10)

\* str.strip() (of blanks).
RECURSIVE Strip(_)
Strip(s) ==
  IF s = "" THEN s
  ELSE IF SubSeq(s, 1, 1) = " " THEN Strip(SubSeq(s, 2, Len(s)))
  ELSE IF SubSeq(s, Len(s), Len(s)) = " " THEN Strip(SubSeq(s, 1, Len(s) - 1))
  ELSE s

\* ------------------------------------------------- update_job calls (kwargs)
\* StartingKw without status="processing".
StartingKwNoStatus ==
  [step |-> "starting", progress |-> 0,
   message |-> "Starting pipeline...", error |-> None, output_file |-> None]

StartingKw ==
  [status |-> "processing", step |-> "starting", progress |-> 0,
   message |-> "Starting pipeline...", error |-> None, output_file |-> None]

DownloadingKw ==
  [step |-> "downloading", progress |-> 5, message |-> "Launching headless browser..."]

NavigatingKw == [progress |-> 7, message |-> "Navigating to Publer downloader..."]

InjectingKw == [progress |-> 10, message |-> "Injecting YouTube URL..."]

TriggeringKw == [progress |-> 12, message |-> "Triggering download on Publer..."]

WaitingKw ==
  [progress |-> 15, message |-> "Waiting for Publer to process video (up to 60s)..."]

StreamingKw == [progress |-> 20, message |-> "Downloading video file..."]

ExtractingKw == [progress |-> 25, message |-> "Extracting audio track..."]

DownloadCompleteKw == [progress |-> 30, message |-> "Download complete"]

\* SeparatingKw with a progress below the one the streaming download stored.
SeparatingKwBelow ==
  [step |-> "separating", progress |-> 10,
   message |-> "Separating vocals from background audio..."]

SeparatingKw ==
  [step |-> "separating", progress |-> 20,
   message |-> "Separating vocals from background audio..."]

SeparationCompleteKw == [progress |-> 35, message |-> "Audio separation complete"]

TranscribingKw ==
  [step |-> "transcribing", progress |-> 40, message |-> "Transcribing speech..."]

\* n = len(segments)
TranscribedKw(n) ==
  [progress |-> 55, message |-> "Transcribed " \o ToStr(n) \o " segments"]

TranslatingKw ==
  [step |-> "translating", progress |-> 60, message |-> "Translating text..."]

\* TranslatedKw with round() for int().
TranslatedKwRounded(i, n) ==
  [progress |-> 60 + ((2 * 15 * i + n) \div (2 * n)),
   message |-> "Translated " \o ToStr(i) \o "/" \o ToStr(n) \o " segments"]

\* After the i-th of n segments (i counted from 1, the code's i + 1):
\* pct = 60 + int(15 * (i + 1) / len(segments)).
TranslatedKw(i, n) ==
  [progress |-> 60 + ((15 * i) \div n),
   message |-> "Translated " \o ToStr(i) \o "/" \o ToStr(n) \o " segments"]

SynthesizingKw ==
  [step |-> "synthesizing", progress |-> 75, message |-> "Generating dubbed audio..."]

SynthesizedKw == [progress |-> 85, message |-> "TTS synthesis complete"]

MixingKw ==
  [step |-> "mixing", progress |-> 88, message |-> "Mixing final audio and video..."]

RenderedKw == [progress |-> 95, message |-> "Final video rendered"]

\* output_path = str(job_dir / "dubbed_output.mp4")
OutputPath == "dubbed_output.mp4"

\* CompletedKw without output_file=output.
CompletedKwNoOutput(output) ==
  [status |-> "completed", progress |-> 100,
   message |-> "Dubbing complete! Your file is ready."]

\* run_pipeline's last update_job, output being mix_audio_video's result.
CompletedKw(output) ==
  [status |-> "completed", progress |-> 100,
   message |-> "Dubbing complete! Your file is ready.", output_file |-> Some(output)]

\* FailedKw that also names the output path mix_audio_video writes to.
FailedKwWithOutput(msg) ==
  [status |-> "failed", message |-> "Error: " \o msg, error |-> Some(msg),
   output_file |-> Some(OutputPath)]

\* FailedKw without error=str(e).
FailedKwNoError(msg) == [status |-> "failed", message |-> "Error: " \o msg]

\* The except clause of run_pipeline, e being the exception and msg = str(e).
FailedKw(msg) ==
  [status |-> "failed", message |-> "Error: " \o msg, error |-> Some(msg)]

\* ---------------------------------------------------------- separate_audio
\* What Demucs leaves behind: its return code, where (if anywhere) its output
\* directory is, and the directory's listing in iteration order.
ReturnCodes == {0, 1}
SepDirs == {"htdemucs", "other_model", "missing"}
StemNames == {"vocals.mp3", "no_vocals.mp3"}
Listings ==
  {<<>>} \cup {<<a>> : a \in StemNames}
         \cup {<<a, b>> : <<a, b>> \in {p \in StemNames \X StemNames : p[1] # p[2]}}

\* The loop over sep_dir.iterdir(): the pair (vocals_file, bg_file) after it,
\* each None or Some(name).
RECURSIVE ClassifyStems(_, _, _)
ClassifyStems(listing, vocals_file, bg_file) ==
  IF listing = <<>> THEN <<vocals_file, bg_file>>
  ELSE LET name == Head(listing)
       IN IF Contains("vocals", name)
          THEN ClassifyStems(Tail(listing), Some(name), bg_file)
          ELSE IF Contains("no_vocals", name)
               THEN ClassifyStems(Tail(listing), vocals_file, Some(name))
               ELSE ClassifyStems(Tail(listing), vocals_file, bg_file)

DemucsStderr == "No module named demucs"
SepDirMissingError ==
  "[Errno 2] No such file or directory: '/tmp/yt_dubbing_jobs/<id>/separated/htdemucs/source_audio'"

\* separate_audio after its first update_job: Some(str(e)) of the exception it
\* raises, or None when it returns its two stems.
SeparateOutcome(rc, sepDir, listing) ==
  IF rc # 0 THEN Some("Demucs failed: " \o DemucsStderr)
  ELSE IF sepDir = "missing" THEN Some(SepDirMissingError)
  ELSE LET stems == ClassifyStems(listing, None, None)
       IN IF stems[1] = None \/ stems[2] = None
          THEN Some("Demucs separation output not found")
          ELSE None

\* The separator did what its contract says: exit code 0 and an output directory
\* that holds a vocals stem and a no_vocals stem.
SeparatorSucceeded(rc, sepDir, listing) ==
  /\ rc = 0
  /\ sepDir # "missing"
  /\ \E i \in 1..Len(listing) : listing[i] = "vocals.mp3"
  /\ \E i \in 1..Len(listing) : listing[i] = "no_vocals.mp3"

\* ------------------------------------------------- exceptions of the awaits
\* str(e) of what the awaited calls of download_video can raise, by the await
\* the run is suspended at.
AwaitErrors(at) ==
  CASE at = "dl_launch" -> {"BrowserType.launch: Executable doesn't exist"}
    [] at = "dl_goto"   -> {"Timeout 30000ms exceeded."}
    [] at = "dl_fill"   -> {"Could not find URL input field on Publer page"}
    [] at = "dl_click"  -> {"Timeout 30000ms exceeded."}
    [] at = "dl_wait"   ->
         {"Publer did not produce a download link within 60 seconds. "
          \o "The service may be overloaded or the video may be unavailable."}
    [] at = "dl_stream" -> {"", "Downloaded video file is empty or missing"}
    [] OTHER -> {}

ImportErrorMsg == "No module named 'playwright'"
BrowserCloseError == "Browser.close: Target page, context or browser has been closed"
FfmpegError == "ffmpeg error (see stderr output for detail)"

\* ---------------------------------------------------- _download_scraper.py
\* The process before main's first statement: nothing tried (tried: the
\* strategies main called, formats: the labels try_ytdlp's loop took), nothing
\* recorded, nothing printed (stdout), not exited (code is None), no traceback,
\* and no video file in the output directory (disk).
ScraperStart ==
  [at |-> "main", tried |-> <<>>, formats |-> <<>>, errors |-> <<>>,
   all_errors |-> <<>>, stdout |-> None, code |-> None, traceback |-> None,
   disk |-> None]

\* ------------------------------------------------- synthesize_tts: assembly
\* No assembly is under way.
NoAssembly ==
  [at |-> "idle", segments |-> <<>>, tts_files |-> <<>>, files |-> <<>>, i |-> 0,
   full_track |-> None, placed |-> <<>>, skipped |-> {}, raised |-> None]

\* ------------------------------------------------------------------- Init
NoSubscription ==
  [state |-> "none", job |-> 0, prev_msg |-> "", cur |-> None, sent |-> None,
   before |-> None]

Init ==
  /\ jobs = EmptyDict
  /\ dirs = {}
  /\ pc = [j \in JobIds |-> "none"]
  /\ exc = [j \in JobIds |-> None]
  /\ log = [j \in JobIds |-> <<>>]
  /\ extOK = [j \in JobIds |-> TRUE]
  /\ cleaned = {}
  /\ tin = [j \in JobIds |-> [loaded |-> FALSE, raw |-> <<>>, outcomes |-> <<>>]]
  /\ segs = [j \in JobIds |-> <<>>]
  /\ ttsi = [j \in JobIds |-> 0]
  /\ clips = [j \in JobIds |-> <<>>]
  /\ track = [j \in JobIds |-> None]
  /\ outfile = [j \in JobIds |-> "none"]
  /\ sse = [s \in SubIds |-> NoSubscription]
  /\ scr = ScraperStart
  /\ asm = NoAssembly

\* The update_job calls kws, in order, on the job store js.
RECURSIVE UpdateAll(_, _, _)
UpdateAll(js, j, kws) ==
  IF kws = <<>> THEN js ELSE UpdateAll(update_job(js, j, Head(kws)), j, Tail(kws))

\* The update_job calls of one section of job j's run.
Write(j, kws) ==
  /\ jobs' = UpdateAll(jobs, j, kws)
  /\ log' = [log EXCEPT ![j] = @ \o kws]

\* get_job_dir(job_id): the directory exists afterwards.
get_job_dir(ds, j) == ds \cup {j}

\* cleanup_job(job_id): the directory is gone afterwards.
cleanup_job(ds, j) == ds \ {j}

\* ---------------------------------------------------------- start_process
\* uuid4: an id no job has had before (the least one, ids being interchangeable).
FreshId(j) == pc[j] = "none" /\ \A i \in JobIds : i < j => pc[i] # "none"

\* start_process up to `await file.close()`: the record is created, the working
\* directory made and the upload copied, which succeeds or raises.
StartProcess(j) ==
  /\ FreshId(j)
  /\ jobs' = [i \in (DOMAIN jobs) \cup {j} |-> IF i = j THEN QueuedRecord ELSE jobs[i]]
  /\ dirs' = get_job_dir(dirs, j)
  /\ \E saved \in BOOLEAN : pc' = [pc EXCEPT ![j] = IF saved THEN "saving" ELSE "save_failed"]
  /\ UNCHANGED <<exc, log, extOK, cleaned, tailVars, sse, scr, asm>>

\* Where start_process goes from `await file.close()`: the HTTPException of a
\* failed save (or a failing close) leaves the handler, else the run is made a task.
AfterSave(at, closed) == IF at = "saving" /\ closed THEN "scheduled" ELSE "rejected"

StartProcessFinish(j) ==
  /\ pc[j] \in {"saving", "save_failed"}
  /\ \E closed \in BOOLEAN : pc' = [pc EXCEPT ![j] = AfterSave(pc[j], closed)]
  /\ UNCHANGED <<jobs, dirs, exc, log, extOK, cleaned, tailVars, sse, scr, asm>>

\* ------------------------------------------------------------- the stages
\* What one stage (or one part of a stage) did in a section: its update_job
\* calls and Some(str(e)) of the exception it raised, None if it returned.
Returned(kws) == [writes |-> kws, raised |-> None]
Raised(kws, msg) == [writes |-> kws, raised |-> Some(msg)]

\* download_video from the end of its finally clause: audio extraction by
\* ffmpeg (a blocking call), which returns or raises ffmpeg.Error.
DownloadTail(ffmpegOK) ==
  IF ffmpegOK
  THEN Returned(<<ExtractingKw, DownloadCompleteKw>>)
  ELSE Raised(<<ExtractingKw>>, FfmpegError)

\* separate_audio: Demucs runs (a blocking call) and its output is looked up.
separate_audio(rc, sepDir, listing) ==
  LET outcome == SeparateOutcome(rc, sepDir, listing)
  IN IF outcome = None
     THEN Returned(<<SeparatingKw, SeparationCompleteKw>>)
     ELSE Raised(<<SeparatingKw>>, outcome[1])

\* transcribe_audio.  The texts Whisper may give a segment, the transcripts of
\* at most MaxSegs segments, and the k-th segment's times (seconds).
RawTexts == {" ", " hi "}
Transcripts == UNION {[1..n -> RawTexts] : n \in 0..MaxSegs}
SegStart(k) == 2 * (k - 1)
SegEnd(k) == 2 * k

\* The list transcribe_audio builds from the transcript.
Segments(raw) ==
  [k \in 1..Len(raw) |-> [start |-> SegStart(k), end |-> SegEnd(k), text |-> Strip(raw[k])]]

WhisperError == "Unable to open file 'model.bin' in model"

transcribe_audio(loaded, raw) ==
  IF ~loaded THEN Raised(<<TranscribingKw>>, WhisperError)
  ELSE IF Segments(raw) = <<>>
       THEN Raised(<<TranscribingKw>>, "No speech detected in the audio")
       ELSE Returned(<<TranscribingKw, TranscribedKw(Len(Segments(raw)))>>)

\* translate_segments.  What translator.translate does for one segment: it
\* returns a translation, returns an empty text, or raises.
TranslateOutcomes == {"ok", "empty", "raise"}
Translation(text) == "es:" \o text

\* TranslatedText that leaves `translated` empty when the translator raises.
TranslatedTextNoFallback(text, outcome) ==
  IF text = "" THEN ""
  ELSE IF outcome = "ok" THEN Translation(text)
  ELSE ""

\* The `translated` field translate_segments gives a segment.
TranslatedText(text, outcome) ==
  IF text = "" THEN ""
  ELSE IF outcome = "ok" THEN Translation(text)
  ELSE IF outcome = "empty" THEN ""
  ELSE text

\* The list translate_segments returns: {**seg, "translated": ...} per segment.
TranslatedSegments(segments, outcomes) ==
  [k \in 1..Len(segments) |->
     DictUpdate(segments[k],
                [translated |-> TranslatedText(segments[k].text, outcomes[k])])]

\* The update_job calls of translate_segments' loop from segment k on: one per
\* segment with a text.
RECURSIVE TranslateWrites(_, _)
TranslateWrites(segments, k) ==
  IF k > Len(segments) THEN <<>>
  ELSE (IF segments[k].text = "" THEN <<>> ELSE <<TranslatedKw(k, Len(segments))>>)
       \o TranslateWrites(segments, k + 1)

translate_segments(segments, outcomes) ==
  Returned(<<TranslatingKw>> \o TranslateWrites(segments, 1))

\* synthesize_tts.  text = seg.get("translated", seg["text"])
Spoken(seg) == Get(seg, "translated", seg.text)

\* NextSpoken without `if not text: continue`: the k-th segment, if there is one.
NextSegment(segments, k) == IF k <= Len(segments) THEN k ELSE 0

\* The first segment from the k-th on that synthesize_tts's loop does not skip
\* (0 if there is none).
NextSpoken(segments, k) ==
  LET rest == {i \in k..Len(segments) : Spoken(segments[i]) # ""}
  IN IF rest = {} THEN 0 ELSE CHOOSE i \in rest : \A m \in rest : i <= m

\* synthesize_tts up to its first await, or, when its loop skips every segment,
\* up to `raise RuntimeError("No TTS segments generated")`.
SynthHead(segments) ==
  IF NextSpoken(segments, 1) = 0
  THEN Raised(<<SynthesizingKw>>, "No TTS segments generated")
  ELSE Returned(<<SynthesizingKw>>)

TtsError == "No audio was received. Please verify that your parameters are correct."
ExportError == "[Errno 28] No space left on device"

\* synthesize_tts after its loop: the track is assembled and exported, which
\* may raise, then its last update_job.
SynthTail(exported) ==
  IF exported THEN Returned(<<SynthesizedKw>>) ELSE Raised(<<>>, ExportError)

MixError == "FFmpeg mixing failed: ffmpeg error (see stderr output for detail)"

\* mix_audio_video: the two ffmpeg runs return, or ffmpeg.Error is re-raised
\* as RuntimeError.
mix_audio_video(mixed) ==
  IF mixed THEN Returned(<<MixingKw, RenderedKw>>) ELSE Raised(<<MixingKw>>, MixError)

\* The entry synthesize_tts adds to tts_files for the k-th segment, i = k - 1
\* being the code's index: out_path = tts_dir / f"seg_{i:04d}.mp3".
ClipOf(segments, k) ==
  [file |-> "seg_" \o SubSeq("0000", 1, 4 - Len(ToStr(k - 1))) \o ToStr(k - 1) \o ".mp3",
   start |-> segments[k].start, end |-> segments[k].end]

\* TryBlock in which an exception does not end the block: every part runs, and
\* the first exception is raised at the end.
RECURSIVE TryBlockRunsOn(_)
TryBlockRunsOn(parts) ==
  IF parts = <<>> THEN Returned(<<>>)
  ELSE LET rest == TryBlockRunsOn(Tail(parts))
       IN [writes |-> Head(parts).writes \o rest.writes,
           raised |-> IF Head(parts).raised # None THEN Head(parts).raised
                      ELSE rest.raised]

\* The try block of run_pipeline over the parts of one section: a part runs only
\* if every part before it returned, and the first exception ends the block.
RECURSIVE TryBlock(_)
TryBlock(parts) ==
  IF parts = <<>> THEN Returned(<<>>)
  ELSE IF Head(parts).raised # None THEN Head(parts)
  ELSE LET rest == TryBlock(Tail(parts))
       IN [writes |-> Head(parts).writes \o rest.writes, raised |-> rest.raised]

\* The try block with its except clause: the update_job calls of the section.
WithExcept(block) ==
  IF block.raised = None THEN block.writes
  ELSE block.writes \o <<FailedKw(block.raised[1])>>

\* ----------------------------------------------------------- run_pipeline
\* download_video up to its first await: its imports, which may raise
\* ImportError, then its first update_job.
DownloadHead(imported) ==
  IF imported THEN Returned(<<DownloadingKw>>) ELSE Raised(<<>>, ImportErrorMsg)

\* The task starts: run_pipeline's first update_job, then download_video up to
\* its first await.
RunStart(j) ==
  /\ pc[j] = "scheduled"
  /\ \E imported \in BOOLEAN :
       LET block == TryBlock(<<Returned(<<StartingKw>>), DownloadHead(imported)>>)
       IN /\ Write(j, WithExcept(block))
          /\ exc' = [exc EXCEPT ![j] = block.raised]
          /\ extOK' = [extOK EXCEPT ![j] = imported]
          /\ pc' = [pc EXCEPT ![j] = IF imported THEN "dl_launch" ELSE "done"]
          /\ dirs' = IF imported THEN get_job_dir(dirs, j) ELSE dirs
  /\ UNCHANGED <<cleaned, tailVars, sse, scr, asm>>

\* The update_job that follows each group of awaits of download_video, and the
\* group of awaits that follows it.
DownloadNext(at) ==
  CASE at = "dl_launch" -> <<NavigatingKw, "dl_goto">>
    [] at = "dl_goto"   -> <<InjectingKw, "dl_fill">>
    [] at = "dl_fill"   -> <<TriggeringKw, "dl_click">>
    [] at = "dl_click"  -> <<WaitingKw, "dl_wait">>
    [] at = "dl_wait"   -> <<StreamingKw, "dl_stream">>

DownloadAwaits == {"dl_launch", "dl_goto", "dl_fill", "dl_click", "dl_wait"}

\* The awaited calls return: the next update_job, then the next await.
DownloadAdvance(j) ==
  /\ pc[j] \in DownloadAwaits
  /\ Write(j, <<DownloadNext(pc[j])[1]>>)
  /\ pc' = [pc EXCEPT ![j] = DownloadNext(pc[j])[2]]
  /\ UNCHANGED <<dirs, exc, extOK, cleaned, tailVars, sse, scr, asm>>

\* An awaited call raises (or the code raises RuntimeError after it): the finally
\* clause awaits the browser's shutdown, or, when nothing was launched yet, the
\* exception reaches run_pipeline's except clause at once.
DownloadRaise(j) ==
  /\ pc[j] \in DownloadAwaits \cup {"dl_stream"}
  /\ extOK' = [extOK EXCEPT ![j] = FALSE]
  /\ \E msg \in AwaitErrors(pc[j]) :
       /\ exc' = [exc EXCEPT ![j] = Some(msg)]
       /\ \/ /\ pc' = [pc EXCEPT ![j] = "dl_close"]
             /\ UNCHANGED <<jobs, log>>
          \/ /\ pc[j] = "dl_launch"
             /\ Write(j, WithExcept(Raised(<<>>, msg)))
             /\ pc' = [pc EXCEPT ![j] = "done"]
  /\ UNCHANGED <<dirs, cleaned, tailVars, sse, scr, asm>>

\* The video is streamed to source.mp4 in the working directory, which is there
\* to be written to: the finally clause awaits the browser's shutdown.
DownloadStreamed(j) ==
  /\ pc[j] = "dl_stream"
  /\ j \in dirs
  /\ pc' = [pc EXCEPT ![j] = "dl_close"]
  /\ UNCHANGED <<jobs, dirs, exc, log, extOK, cleaned, tailVars, sse, scr, asm>>

\* The finally clause is left with an exception: the one in flight, or the one
\* browser.close() raised.  The except clause of run_pipeline handles it.
DownloadFailed(j) ==
  /\ pc[j] = "dl_close"
  /\ \E msg \in {BrowserCloseError} \cup {exc[j][i] : i \in DOMAIN exc[j]} :
       /\ exc' = [exc EXCEPT ![j] = Some(msg)]
       /\ Write(j, WithExcept(Raised(<<>>, msg)))
  /\ extOK' = [extOK EXCEPT ![j] = FALSE]
  /\ pc' = [pc EXCEPT ![j] = "done"]
  /\ UNCHANGED <<dirs, cleaned, tailVars, sse, scr, asm>>

\* What follows separate_audio up to the next await, for one choice of what
\* Whisper and the translator do: transcribe_audio, translate_segments, and
\* synthesize_tts up to its first await.
TailInputs ==
  UNION {[loaded : BOOLEAN, raw : {raw}, outcomes : [1..Len(raw) -> TranslateOutcomes]] :
           raw \in Transcripts}

NoTailInput == [loaded |-> FALSE, raw |-> <<>>, outcomes |-> <<>>]

SegmentsToSpeak(t) == TranslatedSegments(Segments(t.raw), t.outcomes)

AfterSeparateParts(t) ==
  <<transcribe_audio(t.loaded, t.raw),
    translate_segments(Segments(t.raw), t.outcomes),
    SynthHead(SegmentsToSpeak(t))>>

\* AfterDownloadParts with separate_audio called before download_video is done.
AfterDownloadPartsSwapped(ffmpegOK, sepPart, t) ==
  <<sepPart, DownloadTail(ffmpegOK)>> \o AfterSeparateParts(t)

\* What run_pipeline runs, in order, from the end of download_video's finally
\* clause to the next await: the rest of download_video, separate_audio, and
\* what follows it.
AfterDownloadParts(ffmpegOK, sepPart, t) ==
  <<DownloadTail(ffmpegOK), sepPart>> \o AfterSeparateParts(t)

\* The section of run_pipeline from the end of download_video's finally clause
\* to the next await or to the end of the except clause.  translate_segments is
\* called if the three parts before it returned.
AfterDownload(j, ffmpegOK, sepOK, sepPart, t) ==
  LET block == TryBlock(AfterDownloadParts(ffmpegOK, sepPart, t))
      waits == block.raised = None
      translates == TryBlock(SubSeq(AfterDownloadParts(ffmpegOK, sepPart, t), 1, 3)).raised = None
  IN /\ Write(j, WithExcept(block))
     /\ exc' = [exc EXCEPT ![j] = block.raised]
     /\ extOK' = [extOK EXCEPT ![j] =
                    @ /\ ffmpegOK /\ sepOK
                      /\ (sepPart.raised # None \/ TryBlock(AfterSeparateParts(t)).raised = None)]
     /\ pc' = [pc EXCEPT ![j] = IF waits THEN "tts_wait" ELSE "done"]
     /\ dirs' = IF ffmpegOK THEN get_job_dir(dirs, j) ELSE dirs
     /\ tin' = [tin EXCEPT ![j] = IF translates THEN t ELSE @]
     /\ segs' = [segs EXCEPT ![j] = IF translates THEN SegmentsToSpeak(t) ELSE @]
     /\ ttsi' = [ttsi EXCEPT ![j] = IF waits THEN NextSpoken(SegmentsToSpeak(t), 1) ELSE @]
     /\ UNCHANGED <<clips, track, outfile, cleaned, sse, scr, asm>>

\* Whether ffmpeg extracts the audio track: it can only if source.mp4 is still
\* in the working directory.
FfmpegResults(j) == IF j \in dirs THEN BOOLEAN ELSE {FALSE}

\* The finally clause is left normally: the rest of download_video, then
\* separate_audio, both without an await, and the except clause if one raises.
\* (separate_audio never returns, see SeparateOutcome: the statements of
\* run_pipeline after it are not reached from Init.)
DownloadedThenSeparate(j) ==
  /\ pc[j] = "dl_close"
  /\ exc[j] = None
  /\ \E ffmpegOK \in FfmpegResults(j), rc \in ReturnCodes, sepDir \in SepDirs,
        listing \in Listings :
       LET sepPart == separate_audio(rc, sepDir, listing)
       IN \E t \in (IF sepPart.raised = None THEN TailInputs ELSE {NoTailInput}) :
            AfterDownload(j, ffmpegOK, SeparatorSucceeded(rc, sepDir, listing), sepPart, t)

\* ------------------------------------------- run_pipeline after separate_audio
\* separate_audio as it runs when its loop has set both vocals_file and bg_file:
\* its two update_job calls, and the paths returned.
SeparateReturnsPart == Returned(<<SeparatingKw, SeparationCompleteKw>>)

\* The section after download_video with separate_audio returning.
SeparateReturns(j) ==
  /\ pc[j] = "dl_close"
  /\ exc[j] = None
  /\ TRUE \in FfmpegResults(j)
  /\ \E t \in TailInputs : AfterDownload(j, TRUE, TRUE, SeparateReturnsPart, t)

\* communicate.save raises: synthesize_tts does not catch it, run_pipeline's
\* except clause does.
TtsRaise(j) ==
  /\ pc[j] = "tts_wait"
  /\ Write(j, WithExcept(Raised(<<>>, TtsError)))
  /\ exc' = [exc EXCEPT ![j] = Some(TtsError)]
  /\ extOK' = [extOK EXCEPT ![j] = FALSE]
  /\ pc' = [pc EXCEPT ![j] = "done"]
  /\ UNCHANGED <<dirs, cleaned, tailVars, sse, scr, asm>>

\* communicate.save returns (the clip is written to tts_segments in the working
\* directory, which is there) and a later segment is to be spoken: its entry is
\* appended to tts_files, and the loop awaits the next save.
TtsSaved(j) ==
  /\ pc[j] = "tts_wait"
  /\ j \in dirs
  /\ NextSpoken(segs[j], ttsi[j] + 1) # 0
  /\ clips' = [clips EXCEPT ![j] = Append(@, ClipOf(segs[j], ttsi[j]))]
  /\ ttsi' = [ttsi EXCEPT ![j] = NextSpoken(segs[j], ttsi[j] + 1)]
  /\ UNCHANGED <<jobs, dirs, pc, exc, log, extOK, cleaned, tin, segs, track, outfile, sse, scr, asm>>

\* What run_pipeline runs after the last save: the rest of synthesize_tts,
\* mix_audio_video, and the update_job of completion.
AfterTtsParts(exported, mixed) ==
  <<SynthTail(exported), mix_audio_video(mixed), Returned(<<CompletedKw(OutputPath)>>)>>

\* The output file after mix_audio_video: written whole if ffmpeg returned,
\* absent or partly written if it failed.
OutputsAfterMix(mixed) == IF mixed THEN {"whole"} ELSE {"none", "partial"}

\* The assembly loop of synthesize_tts over tts_files: a clip is overlaid on
\* full_track if AudioSegment.from_file and the overlay return, and skipped
\* (except Exception: continue) if one of them raises.  loads is the set of the
\* entries that load.
Overlaid(tts_files, loads) == {k \in 1..Len(tts_files) : k \in loads}

\* The last communicate.save returns: the rest of run_pipeline, without an await.
SynthesizedThenMix(j) ==
  /\ pc[j] = "tts_wait"
  /\ j \in dirs
  /\ NextSpoken(segs[j], ttsi[j] + 1) = 0
  /\ clips' = [clips EXCEPT ![j] = Append(@, ClipOf(segs[j], ttsi[j]))]
  /\ \E exported \in BOOLEAN, mixed \in BOOLEAN, loads \in SUBSET (1..(Len(clips[j]) + 1)) :
       LET block == TryBlock(AfterTtsParts(exported, mixed))
       IN /\ Write(j, WithExcept(block))
          /\ track' = [track EXCEPT ![j] =
                         IF exported THEN Some(Overlaid(clips'[j], loads)) ELSE @]
          /\ exc' = [exc EXCEPT ![j] = block.raised]
          /\ extOK' = [extOK EXCEPT ![j] = @ /\ exported /\ mixed]
          /\ dirs' = IF exported THEN get_job_dir(dirs, j) ELSE dirs
          /\ \E f \in (IF exported THEN OutputsAfterMix(mixed) ELSE {outfile[j]}) :
               outfile' = [outfile EXCEPT ![j] = f]
  /\ pc' = [pc EXCEPT ![j] = "done"]
  /\ UNCHANGED <<cleaned, tin, segs, ttsi, sse, scr, asm>>

\* --------------------------------------------------------- job_status_sse
\* The fields one iteration of event_generator reads, with .get's defaults.
ReadJob(js, j) ==
  LET job == Get(js, j, EmptyDict)
  IN [status   |-> Get(job, "status", "unknown"),
      progress |-> Get(job, "progress", 0),
      message  |-> Get(job, "message", ""),
      step     |-> Get(job, "step", ""),
      error    |-> Get(job, "error", None)]

\* current_msg = f"{status}|{progress}|{step}|{message}"
CurrentMsg(snap) ==
  snap.status \o "|" \o ToStr(snap.progress) \o "|" \o snap.step \o "|" \o snap.message

Terminal == {"completed", "failed"}

\* job_status_sse with jobs.setdefault(job_id, {}) in place of the membership test.
JobStatusSseCreating(js, j) ==
  [code |-> 200, detail |-> "",
   jobs |-> IF j \in DOMAIN js THEN js ELSE update_job(js, j, EmptyDict)]

\* job_status_sse before the stream: the response's status code and detail,
\* and the job store it leaves.
job_status_sse(js, j) ==
  IF j \notin DOMAIN js
  THEN [code |-> 404, detail |-> "Job not found", jobs |-> js]
  ELSE [code |-> 200, detail |-> "", jobs |-> js]

\* download_result: the response's status code and detail, the file handed out
\* (None or Some(path)), and the job store it leaves.  files tells of each
\* job's output path whether a file is there.
download_result(js, files, j) ==
  IF j \notin DOMAIN js
  THEN [code |-> 404, detail |-> "Job not found", file |-> None, jobs |-> js]
  ELSE IF ~("status" \in DOMAIN js[j] /\ js[j].status = "completed")
  THEN [code |-> 400, detail |-> "Job is not completed yet", file |-> None, jobs |-> js]
  ELSE LET output_file == Get(js[j], "output_file", None)
       IN IF output_file = None \/ output_file = Some("") \/ files[j] = "none"
          THEN [code |-> 404, detail |-> "Output file not found", file |-> None, jobs |-> js]
          ELSE [code |-> 200, detail |-> "", file |-> output_file, jobs |-> js]

\* job_status_sse: 404 unless the job is known, else the stream is opened
\* (the least unused subscription, subscriptions being interchangeable).
Subscribe(s, j) ==
  /\ job_status_sse(jobs, j).code = 200
  /\ sse[s].state = "none"
  /\ \A t \in SubIds : t < s => sse[t].state # "none"
  /\ sse' = [sse EXCEPT ![s].state = "open", ![s].job = j]
  /\ jobs' = job_status_sse(jobs, j).jobs
  /\ UNCHANGED <<dirs, pc, exc, log, extOK, cleaned, tailVars, scr, asm>>

\* PollIteration without `prev_msg = current_msg` after the yield.
PollIterationKeepsPrev(sub, js) ==
  LET snap == ReadJob(js, sub.job)
      current_msg == CurrentMsg(snap)
      changed == current_msg # sub.prev_msg
  IN [state    |-> IF snap.status \in Terminal THEN "closed" ELSE "open",
      job      |-> sub.job,
      prev_msg |-> sub.prev_msg,
      cur      |-> Some(snap),
      sent     |-> IF changed THEN Some(snap) ELSE sub.sent,
      before   |-> IF changed THEN sub.sent ELSE sub.before]

\* One iteration of event_generator's loop on the subscription's locals: read,
\* yield if the line changed, stop on a terminal status, else sleep.
PollIteration(sub, js) ==
  LET snap == ReadJob(js, sub.job)
      current_msg == CurrentMsg(snap)
      changed == current_msg # sub.prev_msg
  IN [state    |-> IF snap.status \in Terminal THEN "closed" ELSE "open",
      job      |-> sub.job,
      prev_msg |-> IF changed THEN current_msg ELSE sub.prev_msg,
      cur      |-> Some(snap),
      sent     |-> IF changed THEN Some(snap) ELSE sub.sent,
      before   |-> IF changed THEN sub.sent ELSE sub.before]

Poll(s) ==
  /\ sse[s].state = "open"
  /\ sse' = [sse EXCEPT ![s] = PollIteration(sse[s], jobs)]
  /\ UNCHANGED <<jobs, dirs, pc, exc, log, extOK, cleaned, tailVars, scr, asm>>

\* ----------------------------------------------------------------- cleanup
\* DELETE /api/cleanup/{job_id}: the working directory and the record are removed.
Cleanup(j) ==
  /\ pc[j] # "none"
  /\ dirs' = cleanup_job(dirs, j)
  /\ jobs' = PopJob(jobs, j)
  /\ cleaned' = cleaned \cup {j}
  /\ outfile' = [outfile EXCEPT ![j] = "none"]
  /\ UNCHANGED <<pc, exc, log, extOK, tin, segs, ttsi, clips, track, sse, scr, asm>>

\* ---------------------------------------------------- _download_scraper.py
\* The labels of try_ytdlp's format_strategies, in list order.
format_strategies ==
  <<"best-mp4", "best-merge", "simple-best", "720p-cap", "worst-convert">>

\* StrategyAt that walks the list from its end.
StrategyAtReversed(k) == format_strategies[Len(format_strategies) + 1 - k]

\* The strategy the k-th iteration of `for strategy in format_strategies` takes.
StrategyAt(k) == format_strategies[k]

\* sys.argv[2]
output_path == "source.mp4"

\* What a strategy returns to main: a success payload, {"skipped": True,
\* "reason": ...}, or {"skipped": False, "errors": [...]} with a
\* debug_screenshot that is None where the code gives none.
Success(strategy, size) ==
  [kind |-> "success", path |-> output_path, size |-> size, strategy |-> strategy,
   reason |-> "", errors |-> <<>>, debug_screenshot |-> None]
Skipped(reason) ==
  [kind |-> "skipped", path |-> "", size |-> 0, strategy |-> "",
   reason |-> reason, errors |-> <<>>, debug_screenshot |-> None]
Failed(errors, screenshot) ==
  [kind |-> "failed", path |-> "", size |-> 0, strategy |-> "",
   reason |-> "", errors |-> errors, debug_screenshot |-> screenshot]

\* What ydl.download does in one iteration of try_ytdlp's loop: it writes a
\* file above 1024 bytes, a file of at most 1024 bytes, no file, or raises.
FormatOutcomes == {"ok", "small", "nofile", "raise"}
YtdlpError == "ERROR: [youtube] Sign in to confirm you are not a bot"

\* The entry try_ytdlp appends to errors for a strategy that did not succeed.
FormatError(label, outcome) ==
  CASE outcome = "small"  -> label \o ": file too small (" \o ToStr(1024) \o " bytes)"
    [] outcome = "nofile" -> label \o ": no video file found after download"
    [] outcome = "raise"  -> label \o ": " \o YtdlpError

\* What try_publer does: an import fails; Chromium's launch raises (page is
\* not bound yet); a call on the page raises; the input field is not found; no
\* download link appears in time; the stream fails; the file is below 1024
\* bytes; or the file is there.
PublerOutcomes ==
  {"import", "launch", "goto", "no_input", "timeout", "stream", "small", "ok"}
Screenshots == {None, Some("debug_timeout.png")}
GotoError == "Timeout 30000ms exceeded."
UnboundPage == "UnboundLocalError: cannot access local variable 'page' where it is not associated with a value"

\* try_publer: [raised |-> Some(message)] if an exception leaves it, else
\* [raised |-> None, result |-> what it returns].
try_publer(outcome, screenshot) ==
  CASE outcome = "import" ->
         [raised |-> None,
          result |-> Skipped("Missing dependency: No module named 'playwright_stealth'")]
    [] outcome = "launch" ->
         [raised |-> Some(UnboundPage), result |-> Skipped("")]
    [] outcome = "goto" ->
         [raised |-> None,
          result |-> Failed(<<"Playwright error: " \o GotoError>>, Some("debug_timeout.png"))]
    [] outcome = "no_input" ->
         [raised |-> None, result |-> Failed(<<"Could not find URL input on Publer">>, None)]
    [] outcome = "timeout" ->
         [raised |-> None,
          result |-> Failed(<<"Publer did not produce a download link within " \o ToStr(120) \o "s",
                              "Page state: {}">>, screenshot)]
    [] outcome = "stream" ->
         [raised |-> None, result |-> Failed(<<"Video download failed: Server error '503 Service Unavailable'">>, None)]
    [] outcome = "small" ->
         [raised |-> None,
          result |-> Failed(<<"Downloaded file too small: " \o ToStr(0) \o " bytes">>, None)]
    [] outcome = "ok" ->
         [raised |-> None, result |-> Success("publer", 2048)]

\* The video file in the output directory after ydl.download of strategy
\* `label`: a file above 1024 bytes, a file of 1024 bytes, nothing new, or, when
\* the download raises, nothing new or a partly downloaded file (partial).
\* A file is told by the strategy that wrote it and its size.
AfterYtdlp(disk, label, outcome, partial) ==
  CASE outcome = "ok"     -> Some([by |-> "yt-dlp/" \o label, size |-> 2048])
    [] outcome = "small"  -> Some([by |-> "yt-dlp/" \o label, size |-> 1024])
    [] outcome = "nofile" -> disk
    [] outcome = "raise"  ->
         IF partial THEN Some([by |-> "yt-dlp/" \o label, size |-> 4096]) ELSE disk

\* What the loop body makes of the directory after ydl.download: the exception,
\* or _find_video_file's result (any video file that is there) and its size.
Found(disk, outcome) ==
  IF outcome = "raise" THEN "raise"
  ELSE IF disk = None THEN "nofile"
  ELSE IF disk[1].size > 1024 THEN "ok"
  ELSE "small"

\* The file at output_path after try_publer: the stream is written over it.
AfterPubler(disk, outcome) ==
  CASE outcome = "ok"    -> Some([by |-> "publer", size |-> 2048])
    [] outcome = "small" -> Some([by |-> "publer", size |-> 0])
    [] OTHER -> disk

\* What main appends to all_errors for a result that is not a success.
Recorded(name, result) ==
  IF result.kind = "skipped" THEN <<name \o ": " \o result.reason>>
  ELSE [k \in 1..Len(result.errors) |-> name \o ": " \o result.errors[k]]

\* " | ".join(all_errors)
RECURSIVE Join(_)
Join(strs) ==
  IF strs = <<>> THEN ""
  ELSE IF Len(strs) = 1 THEN strs[1]
  ELSE strs[1] \o " | " \o Join(Tail(strs))

\* The JSON main prints for a success and when every strategy failed.
SuccessJson(result) ==
  [success |-> TRUE, path |-> result.path, size |-> result.size, strategy |-> result.strategy]
ErrorJson(all_errors, screenshot) ==
  [error |-> IF all_errors = <<>> THEN "All strategies failed" ELSE Join(all_errors),
   debug_screenshot |-> screenshot]

\* main up to try_ytdlp's loop: the usage error, or try_ytdlp is called and its
\* import of yt_dlp fails (main records the skip) or not.
ScraperMain ==
  /\ scr.at = "main"
  /\ \E argc \in {2, 3}, imported \in BOOLEAN :
       scr' =
         IF argc < 3
         THEN [scr EXCEPT !.at = "exited", !.code = Some(1),
                 !.stdout = Some([error |-> "Usage: python _download_scraper.py <url> <output_path> [job_dir]",
                                  debug_screenshot |-> None])]
         ELSE IF ~imported
         THEN [scr EXCEPT !.at = "publer", !.tried = Append(@, "yt-dlp"),
                 !.all_errors = @ \o Recorded("yt-dlp", Skipped("yt-dlp not installed"))]
         ELSE [scr EXCEPT !.at = "ytdlp", !.tried = Append(@, "yt-dlp")]
  /\ UNCHANGED <<jobs, dirs, pc, exc, log, extOK, cleaned, tailVars, sse, asm>>

\* One iteration of try_ytdlp's loop; on success main prints the payload and
\* exits with 0, and after the last strategy main records try_ytdlp's errors.
YtdlpStrategy ==
  /\ scr.at = "ytdlp"
  /\ \E outcome \in FormatOutcomes, partial \in BOOLEAN :
       LET k == Len(scr.formats) + 1
           label == StrategyAt(k)
           disk == AfterYtdlp(scr.disk, label, outcome, partial)
           found == Found(disk, outcome)
           errors == Append(scr.errors, FormatError(label, found))
       IN scr' =
            IF found = "ok"
            THEN [scr EXCEPT !.at = "exited", !.formats = Append(@, label), !.code = Some(0),
                    !.disk = disk,
                    !.stdout = Some(SuccessJson(Success("yt-dlp/" \o label, disk[1].size)))]
            ELSE IF k < Len(format_strategies)
            THEN [scr EXCEPT !.formats = Append(@, label), !.errors = errors, !.disk = disk]
            ELSE [scr EXCEPT !.at = "publer", !.formats = Append(@, label), !.errors = errors,
                    !.disk = disk,
                    !.all_errors = @ \o Recorded("yt-dlp", Failed(errors, None))]
  /\ UNCHANGED <<jobs, dirs, pc, exc, log, extOK, cleaned, tailVars, sse, asm>>

\* main calls try_publer and handles what it returns; an exception that leaves
\* try_publer leaves main too: a traceback, exit code 1, nothing printed.
Publer ==
  /\ scr.at = "publer"
  /\ \E outcome \in PublerOutcomes, screenshot \in Screenshots :
       LET call == try_publer(outcome, screenshot)
           all_errors == scr.all_errors \o Recorded("publer", call.result)
       IN scr' =
            IF call.raised # None
            THEN [scr EXCEPT !.at = "exited", !.tried = Append(@, "publer"),
                    !.code = Some(1), !.traceback = call.raised]
            ELSE IF call.result.kind = "success"
            THEN [scr EXCEPT !.at = "exited", !.tried = Append(@, "publer"),
                    !.disk = AfterPubler(@, outcome),
                    !.code = Some(0), !.stdout = Some(SuccessJson(call.result))]
            ELSE [scr EXCEPT !.at = "exited", !.tried = Append(@, "publer"),
                    !.disk = AfterPubler(@, outcome),
                    !.all_errors = all_errors, !.code = Some(1),
                    !.stdout = Some(ErrorJson(all_errors, call.result.debug_screenshot))]
  /\ UNCHANGED <<jobs, dirs, pc, exc, log, extOK, cleaned, tailVars, sse, asm>>

ScraperNext == ScraperMain \/ YtdlpStrategy \/ Publer

SpecScraper == Init /\ [][ScraperNext]_vars

\* ------------------------------------------------- synthesize_tts: assembly
\* Times (seg.start, seg.end: float seconds) are held in microseconds, so that
\* int(t * 1000) is not the identity.
ToMs(t) == t \div 1000

\* The cues a segment may have: a 0.1 s slot, the 2 s slot from 2.0 to 4.0, and
\* a slot of 20.0005 s.
Cues ==
  {[start |-> 0, end |-> 100000],
   [start |-> 2000000, end |-> 4000000],
   [start |-> 4000000, end |-> 24000500]}

\* What AudioSegment.from_file gives for a saved clip: a clip of len(clip)
\* milliseconds, or an exception; and whether overlaying it raises.
ClipLengths == {200, 2500, 3000, 3001, 5000, 30000}
ClipFiles ==
  {[length |-> n, fails |-> "none"] : n \in ClipLengths}
    \cup {[length |-> 2500, fails |-> f] : f \in {"load", "overlay"}}

\* The `segments` synthesize_tts is called with, by cue and by whether the
\* segment has a text to speak.
AssemblySegments ==
  UNION {[1..n -> [cue : Cues, spoken : BOOLEAN]] : n \in 1..MaxClips}

\* tts_files after the synthesis loop: the cues of the spoken segments, in order.
RECURSIVE TtsFilesOf(_)
TtsFilesOf(segments) ==
  IF segments = <<>> THEN <<>>
  ELSE (IF Head(segments).spoken THEN <<Head(segments).cue>> ELSE <<>>)
       \o TtsFilesOf(Tail(segments))

\* max over tts_files instead of segments.
MaxEndOfClips(segments) ==
  LET ends == {TtsFilesOf(segments)[k].end : k \in 1..Len(TtsFilesOf(segments))}
  IN CHOOSE e \in ends : \A x \in ends : x <= e

\* max_end = max(seg["end"] for seg in segments)
MaxEnd(segments) ==
  LET ends == {segments[k].cue.end : k \in 1..Len(segments)}
  IN CHOOSE e \in ends : \A x \in ends : x <= e

\* AudioSegment.silent(duration=int(max_end * 1000) + 5000): its length in ms.
SilentTrack(segments) == ToMs(MaxEnd(segments)) + 5000

Min(a, b) == IF a <= b THEN a ELSE b

\* clip.speedup(playback_speed = length / slot) with pydub's defaults
\* (chunk_size 150, crossfade 25): the clip is cut into chunks, the end of
\* every chunk but the last is dropped and the chunks are joined with a
\* crossfade; it raises when the clip makes fewer than two chunks.  The result:
\* whether it raised, and the length of the clip returned.
speedup(length, slot) ==
  LET below2 == length < 2 * slot
      remove == IF below2 THEN (150 * (length - slot)) \div slot ELSE 150
      chunk_size == IF below2 THEN 150 ELSE (150 * slot) \div (length - slot)
      crossfade == Min(25, remove - 1)
      whole == chunk_size + remove
      chunks == (length + whole - 1) \div whole
      kept == whole - (remove - crossfade)
      last_chunk == length - (chunks - 1) * whole
  IN IF chunks < 2
     THEN [raised |-> TRUE, length |-> length]
     ELSE [raised |-> FALSE,
           length |-> kept + (chunks - 2) * (kept - crossfade) + last_chunk]

\* len(clip) > seg_duration_ms * 1.5
NeedsSpeedup(length, seg_duration_ms) == 2 * length > 3 * seg_duration_ms

ClipError == "Decoding failed. ffmpeg returned error code: 1"

\* The body of the assembly loop for the i-th tts_files entry, whose file is
\* `file`: what is overlaid (position, length in ms, whether sped up), or that
\* the entry was skipped by `except Exception: continue`.
PlaceClip(i, tts, file) ==
  LET position_ms == ToMs(tts.start)
      seg_duration_ms == ToMs(tts.end - tts.start)
      fast == IF NeedsSpeedup(file.length, seg_duration_ms)
              THEN speedup(file.length, IF seg_duration_ms >= 1 THEN seg_duration_ms ELSE 1)
              ELSE [raised |-> FALSE, length |-> file.length]
  IN IF file.fails # "none" \/ fast.raised
     THEN [of |-> i, skipped |-> TRUE, position |-> position_ms, length |-> 0,
           sped |-> FALSE]
     ELSE [of |-> i, skipped |-> FALSE, position |-> position_ms, length |-> fast.length,
           sped |-> NeedsSpeedup(file.length, seg_duration_ms)]

\* synthesize_tts is past `if not tts_files`: the silent track is made.
AssembleStart ==
  /\ asm.at = "start"
  /\ asm' = [asm EXCEPT !.at = "loop", !.i = 1,
                         !.full_track = Some(SilentTrack(asm.segments))]
  /\ UNCHANGED <<jobs, dirs, pc, exc, log, extOK, cleaned, tailVars, sse, scr>>

\* AssembleClip without the loop's try/except: a clip that fails ends the loop
\* and the stage with its exception.
AssembleClipUncaught ==
  /\ asm.at = "loop"
  /\ asm.i <= Len(asm.tts_files)
  /\ LET clip == PlaceClip(asm.i, asm.tts_files[asm.i], asm.files[asm.i])
     IN asm' = IF clip.skipped
               THEN [asm EXCEPT !.at = "done", !.raised = Some(ClipError)]
               ELSE [asm EXCEPT !.i = @ + 1, !.placed = Append(@, clip)]
  /\ UNCHANGED <<jobs, dirs, pc, exc, log, extOK, cleaned, tailVars, sse, scr>>

\* One iteration of `for tts in tts_files`: the clip is overlaid, which leaves
\* full_track's length as it is, or the entry is skipped.
AssembleClip ==
  /\ asm.at = "loop"
  /\ asm.i <= Len(asm.tts_files)
  /\ LET clip == PlaceClip(asm.i, asm.tts_files[asm.i], asm.files[asm.i])
     IN asm' = [asm EXCEPT !.i = @ + 1,
                           !.placed = IF clip.skipped THEN @ ELSE Append(@, clip),
                           !.skipped = IF clip.skipped THEN @ \cup {asm.i} ELSE @]
  /\ UNCHANGED <<jobs, dirs, pc, exc, log, extOK, cleaned, tailVars, sse, scr>>

\* full_track.export, which writes the file or raises.
AssembleExport ==
  /\ asm.at = "loop"
  /\ asm.i > Len(asm.tts_files)
  /\ \E exported \in BOOLEAN :
       asm' = [asm EXCEPT !.at = "done",
                          !.raised = IF exported THEN None ELSE Some(ExportError)]
  /\ UNCHANGED <<jobs, dirs, pc, exc, log, extOK, cleaned, tailVars, sse, scr>>

\* synthesize_tts at the assembly, for every `segments` with a segment to speak
\* and every outcome of loading its clips.
InitAssembly ==
  /\ jobs = EmptyDict
  /\ dirs = {}
  /\ pc = [j \in JobIds |-> "none"]
  /\ exc = [j \in JobIds |-> None]
  /\ log = [j \in JobIds |-> <<>>]
  /\ extOK = [j \in JobIds |-> TRUE]
  /\ cleaned = {}
  /\ tin = [j \in JobIds |-> [loaded |-> FALSE, raw |-> <<>>, outcomes |-> <<>>]]
  /\ segs = [j \in JobIds |-> <<>>]
  /\ ttsi = [j \in JobIds |-> 0]
  /\ clips = [j \in JobIds |-> <<>>]
  /\ track = [j \in JobIds |-> None]
  /\ outfile = [j \in JobIds |-> "none"]
  /\ sse = [s \in SubIds |-> NoSubscription]
  /\ scr = ScraperStart
  /\ \E segments \in AssemblySegments :
       /\ TtsFilesOf(segments) # <<>>
       /\ \E files \in [1..Len(TtsFilesOf(segments)) -> ClipFiles] :
            asm = [NoAssembly EXCEPT !.at = "start", !.segments = segments,
                                     !.tts_files = TtsFilesOf(segments), !.files = files]

AssemblyNext == AssembleStart \/ AssembleClip \/ AssembleExport

SpecAssembly == InitAssembly /\ [][AssemblyNext]_vars

\* ------------------------------------------------------------------- Spec
JobNext ==
  \E j \in JobIds :
    \/ j <= MaxJobs /\ StartProcess(j)
    \/ StartProcessFinish(j)
    \/ RunStart(j)
    \/ DownloadAdvance(j)
    \/ DownloadRaise(j)
    \/ DownloadStreamed(j)
    \/ DownloadFailed(j)
    \/ DownloadedThenSeparate(j)
    \/ Cleanup(j)
    \/ \E s \in SubIds : Subscribe(s, j)

Next == JobNext \/ \E s \in SubIds : Poll(s)

Spec == Init /\ [][Next]_vars

\* The handlers and runs of every job id, interleaved, without subscriptions.
TwoJobsNext ==
  \E j \in JobIds :
    \/ StartProcess(j)
    \/ StartProcessFinish(j)
    \/ RunStart(j)
    \/ DownloadAdvance(j)
    \/ DownloadRaise(j)
    \/ DownloadStreamed(j)
    \/ DownloadFailed(j)
    \/ DownloadedThenSeparate(j)
    \/ Cleanup(j)

SpecTwoJobs == Init /\ [][TwoJobsNext]_vars

\* run_pipeline with the statements after separate_audio: Next, and the section
\* after download_video with separate_audio returning.
StagesNext ==
  \E j \in JobIds :
    \/ SeparateReturns(j)
    \/ TtsRaise(j)
    \/ TtsSaved(j)
    \/ SynthesizedThenMix(j)

NextStages == Next \/ StagesNext

SpecStages == Init /\ [][NextStages]_vars

\* ================================================================== claims
HasRecord(j) == j \in DOMAIN jobs
StatusOf(j) == Get(jobs[j], "status", "unknown")
ErrorOf(j) == Get(jobs[j], "error", None)
OutputOf(j) == Get(jobs[j], "output_file", None)

\* run_pipeline of job j has returned.
RunEnded(j) == pc[j] = "done"

\* No step of start_process or run_pipeline is still to come for job j.
NothingPending(j) == pc[j] \in {"rejected", "done"}

Last(seq) == seq[Len(seq)]

\* The progress stored just before the i-th update_job call of a run: that of the
\* latest earlier call that names progress, else the one start_process stored.
ProgressBefore(lg, i) ==
  LET earlier == {k \in 1..(i - 1) : "progress" \in DOMAIN lg[k]}
  IN IF earlier = {} THEN QueuedRecord.progress
     ELSE lg[CHOOSE k \in earlier : \A m \in earlier : m <= k].progress

\* The values of field f the run wrote, in order.
RECURSIVE Written(_, _)
Written(lg, f) ==
  IF lg = <<>> THEN <<>>
  ELSE IF f \in DOMAIN Head(lg) THEN <<Head(lg)[f]>> \o Written(Tail(lg), f)
  ELSE Written(Tail(lg), f)

IsPrefix(a, b) == Len(a) <= Len(b) /\ SubSeq(b, 1, Len(a)) = a

\* C1 (as claimed): when run_pipeline has returned and every external
\* collaborator it called succeeded (the upload was saved, every awaited call of
\* the acquirer returned, ffmpeg extracted the audio, the separator wrote a
\* vocals stem and a no_vocals stem), the job is completed with progress 100
\* and an output file.
C1_SuccessCompletes ==
  \A j \in JobIds :
    (RunEnded(j) /\ extOK[j] /\ j \notin cleaned) =>
      /\ HasRecord(j)
      /\ StatusOf(j) = "completed"
      /\ Get(jobs[j], "progress", 0) = 100
      /\ OutputOf(j) # None

\* C1's divergence: the separator exited with 0 and wrote both stems, every other
\* collaborator succeeded, and the run ended failed in separate_audio.
C1_Diverges ==
  \E j \in DOMAIN jobs :
    /\ RunEnded(j) /\ extOK[j] /\ j \notin cleaned
    /\ StatusOf(j) = "failed"
    /\ ErrorOf(j) = Some("Demucs separation output not found")
    /\ Get(jobs[j], "progress", 0) = 20

\* C2 (as claimed): no update_job call of a run writes a progress below the
\* progress stored just before it.
C2_ProgressNeverDecreases ==
  \A j \in JobIds : \A i \in 1..Len(log[j]) :
    "progress" \in DOMAIN log[j][i] => log[j][i].progress >= ProgressBefore(log[j], i)

\* C2's divergence: a run whose latest update_job calls wrote progress 30 (the
\* end of download_video) and then 20 (the start of separate_audio).
C2_Diverges ==
  \E j \in JobIds : \E i \in 2..Len(log[j]) :
    /\ log[j][i - 1] = DownloadCompleteKw /\ log[j][i] = SeparatingKw
    /\ log[j][i].progress < log[j][i - 1].progress

\* The update_job calls that belong to each stage, by the stage's step label.
StageWrites(label) ==
  CASE label = "starting"     -> {StartingKw}
    [] label = "downloading"  ->
         {DownloadingKw, NavigatingKw, InjectingKw, TriggeringKw, WaitingKw,
          StreamingKw, ExtractingKw, DownloadCompleteKw}
    [] label = "separating"   -> {SeparatingKw, SeparationCompleteKw}
    [] label = "transcribing" -> {TranscribingKw} \cup {TranscribedKw(n) : n \in 1..MaxSegs}
    [] label = "translating"  ->
         {TranslatingKw} \cup {TranslatedKw(i, n) : i \in 1..MaxSegs, n \in 1..MaxSegs}
    [] label = "synthesizing" -> {SynthesizingKw, SynthesizedKw}
    [] label = "mixing"       -> {MixingKw, RenderedKw}
    [] OTHER -> {}

\* The update_job calls a stage that returns can make last, by its step label
\* (translate_segments makes none in its loop if no segment has a text).
LastWritesOf(label) ==
  CASE label = "starting"     -> {StartingKw}
    [] label = "downloading"  -> {DownloadCompleteKw}
    [] label = "separating"   -> {SeparationCompleteKw}
    [] label = "transcribing" -> {TranscribedKw(n) : n \in 1..MaxSegs}
    [] label = "translating"  -> StageWrites("translating")
    [] label = "synthesizing" -> {SynthesizedKw}
    [] label = "mixing"       -> {RenderedKw}

StageOrder ==
  <<"starting", "downloading", "separating", "transcribing", "translating",
    "synthesizing", "mixing">>

IsFailedKw(kw) == "status" \in DOMAIN kw /\ kw.status = "failed"
IsCompletedKw(kw) == "status" \in DOMAIN kw /\ kw.status = "completed"

\* A stage's first update_job call comes right after the last call of the stage
\* before it: a stage starts only when the one before it returned.
StartsAfterPrevious(lg) ==
  \A i \in 1..Len(lg) :
    ("step" \in DOMAIN lg[i] /\ lg[i].step # "starting") =>
      /\ i > 1
      /\ \E n \in 1..(Len(StageOrder) - 1) :
           /\ StageOrder[n + 1] = lg[i].step
           /\ lg[i - 1] \in LastWritesOf(StageOrder[n])

\* C3: once a stage has raised and the except clause has run, the last
\* update_job call of the run is the failed one with error = str(e), the record
\* (if there is one) is failed with that error, no stage was started after the
\* one that raised, and no call of the run wrote status completed.
C3_RaiseFailsJob ==
  \A j \in JobIds :
    (exc[j] # None /\ RunEnded(j)) =>
      /\ log[j] # <<>>
      /\ Last(log[j]) = FailedKw(exc[j][1])
      /\ \A i \in 1..(Len(log[j]) - 1) : ~IsFailedKw(log[j][i])
      /\ StartsAfterPrevious(log[j])
      /\ "completed" \notin {Written(log[j], "status")[i] :
                               i \in 1..Len(Written(log[j], "status"))}
      /\ HasRecord(j) => (StatusOf(j) = "failed" /\ ErrorOf(j) = exc[j])

\* C3's case: ffmpeg raised inside download_video, after which the job is failed
\* with ffmpeg's message.
C3_Witness ==
  \E j \in JobIds :
    /\ RunEnded(j) /\ exc[j] = Some(FfmpegError)
    /\ HasRecord(j) /\ StatusOf(j) = "failed" /\ ErrorOf(j) = Some(FfmpegError)

\* C4: a record's output_file is set exactly when its status is completed.
C4_OutputIffCompleted ==
  \A j \in DOMAIN jobs : (OutputOf(j) # None) <=> (StatusOf(j) = "completed")

\* C4's case: a job that failed in mix_audio_video after the output file was
\* partly written, with no output_file in its record.
C4_Witness ==
  \E j \in DOMAIN jobs :
    /\ StatusOf(j) = "failed" /\ ErrorOf(j) = Some(MixError)
    /\ outfile[j] = "partial"
    /\ OutputOf(j) = None

\* C5: a record's error is set exactly when its status is failed.
C5_ErrorIffFailed ==
  \A j \in DOMAIN jobs : (ErrorOf(j) # None) <=> (StatusOf(j) = "failed")

\* C5's case: a failed job whose exception has the empty message (error = "").
C5_Witness ==
  \E j \in DOMAIN jobs : StatusOf(j) = "failed" /\ ErrorOf(j) = Some("")

\* C6: start_process creates the record as queued; the run writes status
\* processing first and then at most one of completed or failed, which is the
\* last update_job call it makes; and a record that was not removed holds the
\* status written last.
C6_StatusPath ==
  \A j \in JobIds :
    LET statuses == Written(log[j], "status")
    IN /\ \/ statuses = <<>>
          \/ statuses = <<"processing">>
          \/ \E t \in Terminal : statuses = <<"processing", t>>
       /\ \A i \in 1..Len(log[j]) :
            ("status" \in DOMAIN log[j][i] /\ log[j][i].status \in Terminal)
              => i = Len(log[j])
       /\ (HasRecord(j) /\ j \notin cleaned) =>
            StatusOf(j) = IF statuses = <<>> THEN "queued" ELSE Last(statuses)
       /\ (pc[j] \in {"saving", "save_failed", "scheduled", "rejected"}
           /\ j \notin cleaned) => (HasRecord(j) /\ jobs[j] = QueuedRecord)

\* C6's case: a job that went queued, processing, failed.
C6_Witness ==
  \E j \in DOMAIN jobs :
    /\ j \notin cleaned
    /\ Written(log[j], "status") = <<"processing", "failed">>
    /\ StatusOf(j) = "failed"

\* C7: the step labels a run writes are an initial part of the fixed stage order
\* (so each stage starts at most once, in order), every update_job call belongs
\* to the stage whose label was written last, a stage's first call comes right
\* after the last call of the stage before it, and nothing follows the failed call.
C7_StagesInOrder ==
  \A j \in JobIds :
    /\ IsPrefix(Written(log[j], "step"), StageOrder)
    /\ StartsAfterPrevious(log[j])
    /\ \A i \in 1..Len(log[j]) :
         \/ IsFailedKw(log[j][i]) /\ i = Len(log[j])
         \/ /\ IsCompletedKw(log[j][i]) /\ i = Len(log[j])
            /\ i > 1 /\ log[j][i - 1] \in LastWritesOf("mixing")
         \/ log[j][i] \in StageWrites(Last(Written(SubSeq(log[j], 1, i), "step")))

\* C7's case: a run that went through every stage.
C7_Witness ==
  \E j \in JobIds :
    /\ RunEnded(j)
    /\ Written(log[j], "step") = StageOrder
    /\ IsCompletedKw(Last(log[j]))

\* C8 (as claimed): a job whose handler and run have nothing left to do has a
\* record that is completed or failed.
C8_EveryJobEnds ==
  \A j \in DOMAIN jobs :
    (NothingPending(j) /\ j \notin cleaned) => StatusOf(j) \in Terminal

\* C8's divergence: start_process answered 500 after creating the record, no
\* task runs for the job, and its record is still the queued one.
C8_Diverges ==
  \E j \in DOMAIN jobs :
    pc[j] = "rejected" /\ j \notin cleaned /\ jobs[j] = QueuedRecord

Tuple4(snap) == <<snap.status, snap.progress, snap.step, snap.message>>

\* C9: for a job that is not cleaned up, each emitted snapshot's progress is at
\* least that of the snapshot emitted before it, a subscription that has ended
\* emitted a completed or failed snapshot last, and once run_pipeline has
\* returned the next iteration of an open subscription emits such a snapshot
\* (if it has not yet) and ends.
C9_EmittedProgressMonotone ==
  \A s \in SubIds :
    (sse[s].state # "none" /\ sse[s].job \notin cleaned) =>
      /\ sse[s].before # None => sse[s].before[1].progress <= sse[s].sent[1].progress
      /\ sse[s].state = "closed" =>
           (sse[s].sent # None /\ sse[s].sent[1].status \in Terminal)
      /\ (sse[s].state = "open" /\ RunEnded(sse[s].job)) =>
           LET after == PollIteration(sse[s], jobs)
           IN /\ after.state = "closed"
              /\ after.sent # None /\ after.sent[1].status \in Terminal
              /\ after.before # None =>
                   after.before[1].progress <= after.sent[1].progress

\* C9's case: a subscription that followed a run into separate_audio (where the
\* stored progress went from 30 back to 20) and ended on its failed snapshot.
C9_Witness ==
  \E s \in SubIds :
    /\ sse[s].state = "closed" /\ sse[s].job \notin cleaned
    /\ sse[s].before # None /\ sse[s].before[1].status = "processing"
    /\ sse[s].sent[1].status = "failed" /\ sse[s].sent[1].step = "separating"

\* C10: what a subscription read last is what it emitted last (so the first read
\* and every observed change are emitted), and two snapshots emitted one after
\* the other differ in status, progress, step or message.
C10_EmitsExactlyChanges ==
  \A s \in SubIds :
    /\ sse[s].cur # None =>
         (sse[s].sent # None /\ Tuple4(sse[s].sent[1]) = Tuple4(sse[s].cur[1]))
    /\ sse[s].before # None => Tuple4(sse[s].before[1]) # Tuple4(sse[s].sent[1])

\* C10's case: a subscription that has emitted two snapshots and then polled
\* once more.
C10_Witness ==
  \E s \in SubIds :
    /\ sse[s].before # None /\ sse[s].state = "open"
    /\ sse[s].sent[1].progress > sse[s].before[1].progress

\* C11 (as claimed): once run_pipeline has returned, the next iteration of an
\* open subscription emits (or has emitted) a completed or failed snapshot and
\* ends the subscription, whether or not cleanup was called for the job.
C11_SubscriptionEnds ==
  \A s \in SubIds :
    (sse[s].state = "open" /\ RunEnded(sse[s].job)) =>
      LET after == PollIteration(sse[s], jobs)
      IN /\ after.state = "closed"
         /\ after.sent # None /\ after.sent[1].status \in Terminal

\* C11's divergence: the run has returned, cleanup removed the record, and the
\* subscription is still open after emitting a snapshot with status unknown;
\* no later action stores a record for the job, so every later iteration reads
\* the same and sleeps again.
C11_Diverges ==
  \E s \in SubIds :
    /\ sse[s].state = "open" /\ RunEnded(sse[s].job)
    /\ sse[s].job \notin DOMAIN jobs
    /\ sse[s].sent # None /\ sse[s].sent[1].status = "unknown"
    /\ PollIteration(sse[s], jobs) = sse[s]

\* C12 (as claimed): a job cleanup was called for has no record and no working
\* directory, in every later state.
C12_CleanupIsFinal ==
  \A j \in cleaned : j \notin DOMAIN jobs /\ j \notin dirs

\* C12's divergence: cleanup was called before the run's task took its first
\* step; the run's first update_job stored a new record, download_video's
\* get_job_dir made a new working directory, and the run goes on.
C12_Diverges ==
  \E j \in cleaned :
    /\ j \in DOMAIN jobs /\ StatusOf(j) = "processing"
    /\ j \in dirs
    /\ pc[j] \in DownloadAwaits

C14_UnknownJobNotFound ==
  \A j \in JobIds :
    pc[j] = "none" =>
      /\ job_status_sse(jobs, j).code = 404
      /\ job_status_sse(jobs, j).jobs = jobs
      /\ download_result(jobs, outfile, j).code = 404
      /\ download_result(jobs, outfile, j).detail = "Job not found"
      /\ download_result(jobs, outfile, j).jobs = jobs
      /\ j \notin DOMAIN jobs

\* C14's case: another job has a record and an open subscription, and an id
\* that was never submitted is answered 404.
C14_Witness ==
  \E j \in JobIds, i \in DOMAIN jobs, s \in SubIds :
    /\ pc[j] = "none" /\ i # j /\ sse[s].job = i
    /\ job_status_sse(jobs, j).code = 404
    /\ download_result(jobs, outfile, j).code = 404

\* C15 (as claimed): a communicate.save that raises ends the run only if no
\* other segment yields a clip: none was saved before it and none is left to be
\* spoken after it.
C15_TtsFailureSkipped ==
  \A j \in JobIds :
    (RunEnded(j) /\ exc[j] = Some(TtsError)) =>
      (clips[j] = <<>> /\ NextSpoken(segs[j], ttsi[j] + 1) = 0)

\* C15's divergence: two segments are to be spoken, the clip of the first was
\* saved, the save of the second raised, and the job is failed with the TTS
\* call's message as its error.
C15_Diverges ==
  \E j \in DOMAIN jobs :
    /\ RunEnded(j) /\ exc[j] = Some(TtsError)
    /\ Len(clips[j]) = 1 /\ ttsi[j] = 2
    /\ StatusOf(j) = "failed" /\ ErrorOf(j) = Some(TtsError)

\* translate_segments was called in job j's run.
Translated(j) == TranslatingKw \in {log[j][i] : i \in 1..Len(log[j])}

\* C16: when translate_segments was called, what it returned has one segment
\* per input segment, in order, with start, end and text as in the input; a
\* segment with a text whose translation call raised has translated = its text;
\* the stage returned (synthesize_tts was called right after its last
\* update_job) and no update_job call of the stage wrote a status or an error.
C16_TranslationFallback ==
  \A j \in JobIds :
    Translated(j) =>
      LET input == Segments(tin[j].raw)
          first == CHOOSE i \in 1..Len(log[j]) : log[j][i] = TranslatingKw
          writes == 1 + Len(TranslateWrites(input, 1))
      IN /\ Len(segs[j]) = Len(input)
         /\ \A k \in 1..Len(input) :
              /\ segs[j][k].start = input[k].start
              /\ segs[j][k].end = input[k].end
              /\ segs[j][k].text = input[k].text
              /\ (input[k].text # "" /\ tin[j].outcomes[k] = "raise") =>
                   segs[j][k].translated = input[k].text
         /\ Len(log[j]) >= first + writes
         /\ log[j][first + writes] = SynthesizingKw
         /\ \A i \in first..(first + writes) :
              "status" \notin DOMAIN log[j][i] /\ "error" \notin DOMAIN log[j][i]

\* C16's case: two segments with a text, the translation call raised for both,
\* both keep their text as translated, and the job went on to completed.
C16_Witness ==
  \E j \in DOMAIN jobs :
    /\ Translated(j) /\ Len(segs[j]) = 2
    /\ \A k \in 1..2 :
         /\ tin[j].outcomes[k] = "raise"
         /\ segs[j][k].text # "" /\ segs[j][k].translated = segs[j][k].text
    /\ StatusOf(j) = "completed" /\ ErrorOf(j) = None

\* C17 (as claimed): when synthesize_tts has returned (its last update_job was
\* made), at least one clip was overlaid on the exported track.
C17_NoSilentTrack ==
  \A j \in JobIds :
    SynthesizedKw \in {log[j][i] : i \in 1..Len(log[j])} =>
      (track[j] # None /\ track[j][1] # {})

\* C17's divergence: clips were saved, every one of them was skipped in the
\* assembly loop, the silent track was exported and the job is completed.
C17_Diverges ==
  \E j \in DOMAIN jobs :
    /\ clips[j] # <<>> /\ track[j] = Some({})
    /\ StatusOf(j) = "completed" /\ OutputOf(j) = Some(OutputPath)

\* ---------------------------------------------------------------- C18, C19
StartsWith(s, prefix) == Len(s) >= Len(prefix) /\ SubSeq(s, 1, Len(prefix)) = prefix

\* The strategies of main's chain, in the order main calls them.
Chain == <<"yt-dlp", "publer">>

\* The process has exited with 0 after printing a success payload.
ScraperSucceeded == scr.at = "exited" /\ scr.code = Some(0)

\* C18: the chain (yt-dlp then Publer in main, the five format strategies in
\* try_ytdlp) attempts its strategies in list order, each at most once, and
\* stops at the first success: the strategies attempted are a prefix of the
\* list, Publer is only started after yt-dlp was skipped or all five formats
\* failed, and on success the process has exited with the payload (path, a size
\* above 1024) and the label of the strategy attempted last.
C18_ChainStopsAtFirstSuccess ==
  /\ IsPrefix(scr.tried, Chain)
  /\ IsPrefix(scr.formats, format_strategies)
  /\ (scr.at = "publer" \/ Len(scr.tried) = 2) =>
       /\ scr.formats \in {<<>>, format_strategies}
       /\ Len(scr.errors) = Len(scr.formats)
  /\ ScraperSucceeded =>
       /\ scr.stdout # None /\ scr.traceback = None
       /\ scr.stdout[1].success
       /\ scr.stdout[1].path = output_path
       /\ scr.stdout[1].size > 1024
       /\ scr.stdout[1].strategy =
            (IF scr.tried = <<"yt-dlp">> THEN "yt-dlp/" \o Last(scr.formats) ELSE "publer")

\* C18's case: the third format strategy succeeded after the first two failed,
\* and Publer was never started.
C18_Witness ==
  /\ ScraperSucceeded
  /\ scr.formats = SubSeq(format_strategies, 1, 3)
  /\ scr.tried = <<"yt-dlp">>
  /\ scr.stdout[1].strategy = "yt-dlp/simple-best"

\* Every strategy was attempted and the process has exited without success.
ChainExhausted == scr.at = "exited" /\ scr.tried = Chain /\ scr.code # Some(0)

\* C19: if every strategy fails or is skipped, the chain ends with a JSON error
\* and exit code 1 and never with an unhandled exception, and the aggregate
\* holds exactly one entry 'label: reason' per strategy attempted, in attempt
\* order; when strategy k succeeds after k-1 failures, exactly k-1 entries
\* have been recorded.
C19_AllFailAggregates ==
  /\ ChainExhausted =>
       /\ scr.traceback = None
       /\ scr.code = Some(1)
       /\ scr.stdout # None
       /\ scr.stdout[1].error = Join(scr.all_errors)
       /\ Len(scr.all_errors) = (IF scr.formats = <<>> THEN 1 ELSE Len(scr.formats)) + 1
       /\ \A i \in 1..Len(scr.all_errors) :
            StartsWith(scr.all_errors[i],
                       IF i = Len(scr.all_errors) THEN "publer: "
                       ELSE IF scr.formats = <<>> THEN "yt-dlp: "
                       ELSE "yt-dlp: " \o format_strategies[i] \o ": ")
  /\ (ScraperSucceeded /\ scr.tried = <<"yt-dlp">>) =>
       Len(scr.errors) = Len(scr.formats) - 1
  /\ (ScraperSucceeded /\ scr.tried = Chain) =>
       Len(scr.all_errors) = (IF scr.formats = <<>> THEN 1 ELSE Len(scr.formats))

\* C19's case goes wrong: every format strategy failed, Chromium's launch
\* raised, and the process ended with a traceback and nothing on stdout.
C19_Diverges ==
  /\ ChainExhausted
  /\ scr.formats = format_strategies
  /\ scr.traceback = Some(UnboundPage)
  /\ scr.stdout = None

\* --------------------------------------------------------------------- C20
\* C20: a job whose Separate stage found no output directory (Demucs returned
\* 0 and neither separated/htdemucs/source_audio nor another source_audio
\* directory exists) ends failed, with an error that contains "separation"
\* and no output_file.
C20_MissingSepDirNamesSeparation ==
  \A j \in DOMAIN jobs :
    (pc[j] = "done" /\ exc[j] = Some(SepDirMissingError)) =>
      /\ StatusOf(j) = "failed"
      /\ OutputOf(j) = None
      /\ ErrorOf(j) # None
      /\ Contains("separation", ErrorOf(j)[1])

\* C20's case goes wrong: the job failed on the missing directory with the
\* message of the FileNotFoundError, which names the path and has no
\* "separation" in it.
C20_Diverges ==
  \E j \in DOMAIN jobs :
    /\ pc[j] = "done" /\ exc[j] = Some(SepDirMissingError)
    /\ StatusOf(j) = "failed"
    /\ OutputOf(j) = None
    /\ ErrorOf(j) = Some(SepDirMissingError)
    /\ ~Contains("separation", SepDirMissingError)

\* --------------------------------------------------------------------- C21
\* The update_job calls job j's run makes in this step.
NewWrites(j) == SubSeq(log'[j], Len(log[j]) + 1, Len(log'[j]))

\* C21: while Separate or Transcribe runs the event loop can serve a poll
\* between the stage's first update_job and the calls that follow it: the step
\* of the run that makes the stage's first call ends with that call, leaving
\* the record at step separating (transcribing) with status processing for
\* another task to read.
C21_StageYieldsToPolls ==
  [][\A j \in JobIds :
       \A i \in 1..Len(NewWrites(j)) :
         NewWrites(j)[i] \in {SeparatingKw, TranscribingKw} =>
           /\ i = Len(NewWrites(j))
           /\ jobs'[j].status = "processing"
           /\ jobs'[j].step = NewWrites(j)[i].step]_vars

\* C21's case goes wrong: a subscription that polled while download_video was
\* streaming emitted, as its next snapshot, the failed one of separate_audio;
\* it never read step separating with status processing.
C21_Diverges ==
  \E s \in SubIds :
    /\ sse[s].state = "closed" /\ sse[s].job \notin cleaned
    /\ sse[s].before # None
    /\ Tuple4(sse[s].before[1]) =
         <<"processing", StreamingKw.progress, "downloading", StreamingKw.message>>
    /\ sse[s].sent[1].status = "failed" /\ sse[s].sent[1].step = "separating"
    /\ SeparatingKw.progress = sse[s].sent[1].progress

\* --------------------------------------------------------------------- C22
\* The record of job j before a step, {} if there is none.
RecordBefore(j) == IF j \in DOMAIN jobs THEN jobs[j] ELSE EmptyDict

\* The fields the update_job calls kws name, and the value the last call that
\* names field f gives it.
NamedFields(kws) == UNION {DOMAIN kws[i] : i \in 1..Len(kws)}
LastNamed(kws, f) ==
  kws[CHOOSE i \in 1..Len(kws) :
        /\ f \in DOMAIN kws[i]
        /\ \A m \in (i + 1)..Len(kws) : f \notin DOMAIN kws[m]][f]

\* C22: the update_job calls a step makes for job j set exactly the fields they
\* name in j's record (created if absent), keep every other field of it, and
\* leave every other job's record as it was, present or absent; so the runs of
\* two jobs, however interleaved, do not alter each other's records.
C22_UpdateTouchesOwnFieldsOnly ==
  [][\A j \in JobIds :
       NewWrites(j) # <<>> =>
         /\ j \in DOMAIN jobs'
         /\ DOMAIN jobs'[j] = (DOMAIN RecordBefore(j)) \cup NamedFields(NewWrites(j))
         /\ \A f \in DOMAIN jobs'[j] :
              jobs'[j][f] = IF f \in NamedFields(NewWrites(j))
                            THEN LastNamed(NewWrites(j), f)
                            ELSE RecordBefore(j)[f]
         /\ \A i \in JobIds \ {j} :
              /\ (i \in DOMAIN jobs') <=> (i \in DOMAIN jobs)
              /\ i \in DOMAIN jobs => jobs'[i] = jobs[i]]_vars

\* C22's case: the runs of two jobs interleaved, one failed at its first
\* await and the other, whose record cleanup had removed, suspended in
\* download_video with a record update_job created from the fields it named.
C22_Witness ==
  \E j \in JobIds : \E i \in JobIds \ {j} :
    /\ pc[j] = "done" /\ j \in DOMAIN jobs /\ StatusOf(j) = "failed"
    /\ i \in cleaned /\ pc[i] \in DownloadAwaits /\ i \in DOMAIN jobs
    /\ "status" \notin DOMAIN jobs[i]
    /\ Len(log[i]) >= 3

\* --------------------------------------------------------------------- C23
\* The indices of the segments whose text to speak is not empty, in order.
RECURSIVE SpokenFrom(_, _)
SpokenFrom(segments, k) ==
  IF k > Len(segments) THEN <<>>
  ELSE (IF Spoken(segments[k]) = "" THEN <<>> ELSE <<k>>) \o SpokenFrom(segments, k + 1)

\* tts_files entry n is the entry of the n-th segment with a text to speak.
ClipIsOf(clip, segments, k) ==
  /\ clip.start = segments[k].start
  /\ clip.end = segments[k].end
  /\ clip.file = ClipOf(segments, k).file

\* C23: tts_files holds one entry per segment with a non-empty text to speak,
\* with that segment's start and end, in segment order: while the loop runs it
\* holds the entries of the spoken segments before the one whose save is
\* awaited, which is itself a spoken segment (no save for an empty text), and
\* once the track is exported it holds all of them and only entries of
\* tts_files are overlaid on the track.
C23_OneClipPerSpokenSegment ==
  \A j \in JobIds :
    LET spoken == SpokenFrom(segs[j], 1)
    IN /\ Len(clips[j]) <= Len(spoken)
       /\ \A n \in 1..Len(clips[j]) : ClipIsOf(clips[j][n], segs[j], spoken[n])
       /\ pc[j] = "tts_wait" =>
            /\ Len(clips[j]) < Len(spoken)
            /\ ttsi[j] = spoken[Len(clips[j]) + 1]
       /\ track[j] # None =>
            /\ Len(clips[j]) = Len(spoken)
            /\ track[j][1] \subseteq 1..Len(clips[j])

\* C23's case: of two segments the first has nothing to speak; the track was
\* exported with the one clip of the second segment on it.
C23_Witness ==
  \E j \in JobIds :
    /\ Len(segs[j]) = 2
    /\ Spoken(segs[j][1]) = "" /\ Spoken(segs[j][2]) # ""
    /\ Len(clips[j]) = 1 /\ clips[j][1].start = SegStart(2)
    /\ track[j] = Some({1})

\* --------------------------------------------------------------------- C24
\* The tts_files entries the assembly loop has been through whose file loaded
\* and whose overlay did not fail.
Assembled == {k \in 1..(asm.i - 1) : asm.files[k].fails = "none"}

\* The entry of `placed` for tts_files entry k.
PlacedOf(k) == {asm.placed[n] : n \in {m \in 1..Len(asm.placed) : asm.placed[m].of = k}}

\* The slot of tts_files entry k, end - start, in microseconds.
SlotOf(k) == asm.tts_files[k].end - asm.tts_files[k].start

Abs(x) == IF x < 0 THEN 0 - x ELSE x

\* C24: a clip of d ms whose slot is s = end - start is compressed exactly when
\* d > 1.5 * s, and then its placed length is s to within a millisecond; a clip
\* with d <= 1.5 * s is placed with its full length d.
C24_CompressedToSlot ==
  \A k \in Assembled :
    LET d == asm.files[k].length
    IN /\ PlacedOf(k) # {}
       /\ \A c \in PlacedOf(k) :
            /\ c.sped <=> (2 * d * 1000 > 3 * SlotOf(k))
            /\ c.sped => Abs(c.length * 1000 - SlotOf(k)) <= 1000
            /\ ~c.sped => c.length = d

\* C24's case goes wrong: the 5000 ms clip of the segment from 2.0 to 4.0 was
\* sped up by 2.5 and overlaid with a length of 2175 ms, not 2000.
C24_Diverges ==
  \E k \in Assembled :
    /\ asm.files[k].length = 5000
    /\ asm.tts_files[k] = [start |-> 2000000, end |-> 4000000]
    /\ \E c \in PlacedOf(k) : c.sped /\ c.length = 2175 /\ c.position = 2000

\* --------------------------------------------------------------------- C25
\* C25: from its creation to the export the track is floor(max_end * 1000) +
\* 5000 ms long, max_end being the greatest end of all segments, those without
\* a text to speak included; overlaying clips does not change it.
C25_TrackDuration ==
  asm.full_track # None =>
    /\ \A k \in 1..Len(asm.segments) :
         asm.segments[k].cue.end \div 1000 + 5000 <= asm.full_track[1]
    /\ \E k \in 1..Len(asm.segments) :
         asm.segments[k].cue.end \div 1000 + 5000 = asm.full_track[1]

\* C25's case: the last segment, which ends at 24.0005 s, has nothing to speak;
\* the clip of the other segment was overlaid and the track is 29000 ms long.
C25_Witness ==
  /\ asm.at = "done"
  /\ Len(asm.segments) = 2
  /\ asm.segments[2] = [cue |-> [start |-> 4000000, end |-> 24000500], spoken |-> FALSE]
  /\ asm.segments[1].cue.end = 4000000
  /\ Len(asm.placed) = 1
  /\ asm.full_track = Some(29000)

\* --------------------------------------------------------------------- C26
\* The update_job calls of job j's run so far.
Calls(j) == {log[j][i] : i \in 1..Len(log[j])}

\* C26: when separate_audio was called and the separator left an output
\* directory with a vocals stem and a no_vocals stem (extOK: it and everything
\* before it did what it should), separate_audio finds both, in either order
\* of the listing, and returns: it makes its last update_job call and does not
\* raise "Demucs separation output not found".
C26_BothStemsFound ==
  \A j \in JobIds :
    (RunEnded(j) /\ SeparatingKw \in Calls(j) /\ extOK[j]) =>
      /\ SeparationCompleteKw \in Calls(j)
      /\ exc[j] # Some("Demucs separation output not found")

\* C26's case goes wrong: the directory held vocals.mp3 and no_vocals.mp3, both
\* names took the `"vocals" in f.name` branch, bg_file stayed None and
\* separate_audio raised.
C26_Diverges ==
  \E j \in JobIds :
    /\ RunEnded(j) /\ extOK[j]
    /\ Len(log[j]) >= 2
    /\ log[j][Len(log[j]) - 1] = SeparatingKw
    /\ Last(log[j]) = FailedKw("Demucs separation output not found")
    /\ \A listing \in {<<"vocals.mp3", "no_vocals.mp3">>, <<"no_vocals.mp3", "vocals.mp3">>} :
         ClassifyStems(listing, None, None)[2] = None

\* --------------------------------------------------------------------- C27
\* C27: a strategy is started with no video file of an earlier, failed strategy
\* in the output directory, and a success is reported on a file the reporting
\* strategy wrote itself.
C27_NoLeftoverFile ==
  /\ scr.at \in {"ytdlp", "publer"} => scr.disk = None
  /\ ScraperSucceeded =>
       (scr.disk # None /\ scr.disk[1].by = scr.stdout[1].strategy)

\* C27's case goes wrong: best-mp4 raised and left a partly downloaded file;
\* the download of best-merge wrote nothing, _find_video_file found the file
\* of best-mp4, and success was printed for it under the label of best-merge.
C27_Diverges ==
  /\ ScraperSucceeded
  /\ scr.formats = <<"best-mp4", "best-merge">>
  /\ scr.stdout[1].strategy = "yt-dlp/best-merge"
  /\ scr.disk = Some([by |-> "yt-dlp/best-mp4", size |-> 4096])
  /\ scr.stdout[1].size = 4096

\* --------------------------------------------------------------------- C28
\* The segments of job j with a source text and an empty translated text.
UntranslatedOf(j) ==
  {k \in 1..Len(segs[j]) :
     segs[j][k].text # "" /\ Get(segs[j][k], "translated", "") = ""}

\* C28: a segment with a source text and an empty translated text is spoken
\* from its source text, and once the loop over the segments is through,
\* tts_files holds a clip of it.
C28_EmptyTranslationFallsBack ==
  \A j \in JobIds : \A k \in UntranslatedOf(j) :
    /\ Spoken(segs[j][k]) = segs[j][k].text
    /\ track[j] # None =>
         \E n \in 1..Len(clips[j]) : ClipIsOf(clips[j][n], segs[j], k)

\* C28's case goes wrong: both segments have a source text, the translator
\* returned an empty text for the first, and the track was exported with the
\* clip of the second segment only.
C28_Diverges ==
  \E j \in JobIds :
    /\ Len(segs[j]) = 2
    /\ UntranslatedOf(j) = {1}
    /\ segs[j][2].text # ""
    /\ track[j] # None
    /\ Len(clips[j]) = 1 /\ ClipIsOf(clips[j][1], segs[j], 2)

\* --------------------------------------------------------------------- C29
\* Loading, compressing or overlaying the clip of tts_files entry k fails.
ClipFails(k) ==
  LET seg_duration_ms == ToMs(asm.tts_files[k].end - asm.tts_files[k].start)
  IN \/ asm.files[k].fails # "none"
     \/ /\ NeedsSpeedup(asm.files[k].length, seg_duration_ms)
        /\ speedup(asm.files[k].length,
                   IF seg_duration_ms >= 1 THEN seg_duration_ms ELSE 1).raised

\* C29: of the tts_files entries the assembly loop has been through, the ones
\* whose clip failed to load, to be compressed or to be overlaid are skipped
\* and nothing of them is on the track; every other one is overlaid once, at
\* its own start offset; the track keeps the length it was created with; the
\* loop goes through every entry, and nothing is raised before the export.
C29_FailedClipSkippedAlone ==
  asm.at \in {"loop", "done"} =>
    /\ \A k \in 1..(asm.i - 1) :
         IF ClipFails(k)
         THEN k \in asm.skipped /\ PlacedOf(k) = {}
         ELSE /\ k \notin asm.skipped
              /\ Cardinality(PlacedOf(k)) = 1
              /\ \A c \in PlacedOf(k) : c.position = ToMs(asm.tts_files[k].start)
    /\ asm.full_track = Some(SilentTrack(asm.segments))
    /\ asm.at = "loop" => asm.raised = None
    /\ asm.at = "done" => asm.i = Len(asm.tts_files) + 1

\* C29's case: the first of two clips did not load, the second was overlaid at
\* its segment's start, and the stage returned.
C29_Witness ==
  /\ asm.at = "done" /\ asm.raised = None
  /\ Len(asm.tts_files) = 2
  /\ asm.files[1].fails = "load" /\ asm.files[2].fails = "none"
  /\ asm.skipped = {1}
  /\ Len(asm.placed) = 1
  /\ asm.placed[1].of = 2 /\ asm.placed[1].position = ToMs(asm.tts_files[2].start)
  /\ asm.placed[1].position > 0

\* --------------------------------------------------------------------- C30
IndexOf(kw, j) == CHOOSE p \in 1..Len(log[j]) : log[j][p] = kw

\* The update_job calls of translate_segments' loop for job j: the ones between
\* the stage's first call and the first call of synthesize_tts.
TranslateLog(j) ==
  SubSeq(log[j], IndexOf(TranslatingKw, j) + 1, IndexOf(SynthesizingKw, j) - 1)

\* The positions (from 1) of the segments with a source text, in order.
RECURSIVE TextedFrom(_, _)
TextedFrom(segments, k) ==
  IF k > Len(segments) THEN <<>>
  ELSE (IF segments[k].text = "" THEN <<>> ELSE <<k>>) \o TextedFrom(segments, k + 1)

\* C30: translate_segments' loop writes once per segment with a source text and
\* not for a segment without one; the write for the segment at position i of
\* the n segments sets progress to 60 + floor(15 * i / n) and no step or status;
\* the values lie in 60..75 and do not decrease from the stage's first write on.
C30_TranslateProgress ==
  \A j \in JobIds :
    (\E p \in 1..Len(log[j]) : log[j][p] = TranslatingKw) =>
      LET w == TranslateLog(j)
          texted == TextedFrom(segs[j], 1)
          n == Len(segs[j])
      IN /\ Len(w) = Len(texted)
         /\ \A m \in 1..Len(w) :
              /\ DOMAIN w[m] = {"progress", "message"}
              /\ n * (w[m].progress - 60) <= 15 * texted[m]
              /\ 15 * texted[m] < n * (w[m].progress - 60 + 1)
              /\ w[m].progress \in 60..75
              /\ w[m].progress >= (IF m = 1 THEN TranslatingKw.progress ELSE w[m - 1].progress)

\* C30's case: two segments with a text were translated; the loop wrote
\* progress 67 (60 + floor(7.5)) and then 75.
C30_Witness ==
  \E j \in JobIds :
    /\ Len(log[j]) > 0 /\ (\E p \in 1..Len(log[j]) : log[j][p] = TranslatingKw)
    /\ Len(segs[j]) = 2
    /\ Len(TranslateLog(j)) = 2
    /\ TranslateLog(j)[1].progress = 67
    /\ TranslateLog(j)[2].progress = 75

\* --------------------------------------------------------------------- C31
\* C31: every clip overlaid without compression ends inside the track: its
\* start offset plus its length is at most the track's length.
C31_ClipsInsideTrack ==
  asm.full_track # None =>
    \A n \in 1..Len(asm.placed) :
      ~asm.placed[n].sped =>
        asm.placed[n].position + asm.placed[n].length <= asm.full_track[1]

\* C31's case goes wrong: the last segment runs from 4.0 s to 24.0005 s, its
\* clip of 30000 ms is not more than 1.5 times the slot of 20000 ms and is
\* overlaid as it is at 4000 ms, on a track of 29000 ms: overlay drops the
\* clip's last 5000 ms.
C31_Diverges ==
  /\ asm.at = "done" /\ asm.raised = None
  /\ asm.full_track = Some(29000)
  /\ \E n \in 1..Len(asm.placed) :
       /\ ~asm.placed[n].sped
       /\ asm.placed[n].position = 4000
       /\ asm.placed[n].length = 30000

====
